---- MODULE Spec2Model ----
(***************************************************************************)
(* A model of lighthouse.py: the Lighthouse client (field decoders,        *)
(* _get_data, _parse_field, init, get_projects, get_tickets) and the       *)
(* Project and Ticket entities it populates.                               *)
(*                                                                         *)
(* Python strings are sequences of one-character strings, so that          *)
(* int(data, 10), str.replace('-', '_') and '_' + field_type are computed  *)
(* character by character.  Python objects that the caller can hold        *)
(* (Project instances) live in the heap `objs` and are referred to by      *)
(* their index; every Python value is a record with the same four fields.  *)
(***************************************************************************)
EXTENDS Integers, Sequences, FiniteSets, TLC

VARIABLES
    url,        \* Lighthouse.url: NoneV or a string value
    token,      \* Lighthouse.token
    projects,   \* Lighthouse.projects: a sequence of references into objs
    objs,       \* every Project instance built so far: its attribute dictionary
    last,       \* the most recent call of the caller and how it ended
    calls       \* the number of calls the caller has made

vars == <<url, token, projects, objs, last, calls>>

(***************************************************************************)
(* Bounds of the model.                                                    *)
(***************************************************************************)
\* the largest number of child nodes of a projects.xml response
MaxChildren == 2
\* the largest number of Project instances ever built in one run
MaxObjs == 2
\* the largest number of calls of one run
MaxCalls == 3
\* the longest string handed to a decoder called on its own
MaxStrLen == 4

(***************************************************************************)
(* Python values.                                                          *)
(***************************************************************************)
Val(k, str, num, seq) == [kind |-> k, s |-> str, n |-> num, items |-> seq]

NoneV == Val("None", <<>>, 0, <<>>)

StrV(chars) == Val("str", chars, 0, <<>>)

IntV(i) == Val("int", <<>>, i, <<>>)

\* bool is a subclass of int: True == 1 and False == 0
BoolV(b) == Val("bool", <<>>, IF b THEN 1 ELSE 0, <<>>)

\* a timezone-aware datetime, kept as the text it was parsed from
DateV(chars) == Val("datetime", chars, 0, <<>>)

\* a Python list
ListV(seq) == Val("list", <<>>, 0, seq)

\* the node tree xmltodict returns for the resource at a path
TreeV(path) == Val("tree", path, 0, <<>>)

\* an instance of some other class (a Ticket handed in where a Project is due)
OtherV == Val("object", <<>>, 0, <<>>)

\* Python truthiness of a value, as `if data:` and `if field_type:` test it
Truthy(v) ==
    CASE v.kind = "None" -> FALSE
      [] v.kind = "str" -> Len(v.s) > 0
      [] v.kind \in {"int", "bool"} -> v.n # 0
      [] v.kind = "list" -> Len(v.items) > 0
      [] OTHER -> TRUE

(***************************************************************************)
(* Characters.                                                             *)
(***************************************************************************)
Digits == <<"0", "1", "2", "3", "4", "5", "6", "7", "8", "9">>

IsDigit(ch) == \E i \in 1..10 : Digits[i] = ch

DigitValue(ch) == (CHOOSE i \in 1..10 : Digits[i] = ch) - 1

IsSpace(ch) == ch \in {" ", "\t", "\n"}

RECURSIVE LStrip(_)
LStrip(chars) ==
    IF chars # <<>> /\ IsSpace(Head(chars)) THEN LStrip(Tail(chars)) ELSE chars

RECURSIVE RStrip(_)
RStrip(chars) ==
    IF chars # <<>> /\ IsSpace(chars[Len(chars)])
    THEN RStrip(SubSeq(chars, 1, Len(chars) - 1))
    ELSE chars

RECURSIVE DigitsValue(_, _)
DigitsValue(chars, acc) ==
    IF chars = <<>> THEN acc
    ELSE DigitsValue(Tail(chars), 10 * acc + DigitValue(Head(chars)))

AllDigits(chars) == chars # <<>> /\ \A i \in 1..Len(chars) : IsDigit(chars[i])

RECURSIVE NatToChars(_)
NatToChars(i) ==
    IF i < 10 THEN <<Digits[i + 1]>>
    ELSE NatToChars(i \div 10) \o <<Digits[(i % 10) + 1]>>

\* str.replace(old, new) for one-character old and new
Replace(chars, old, new) ==
    [i \in 1..Len(chars) |-> IF chars[i] = old THEN new ELSE chars[i]]

(***************************************************************************)
(* Errors.  An outcome is "ok" or the exception that reached the caller.   *)
(***************************************************************************)
Ok == "ok"
ErrUrl == "ValueError: Please set url properly"
ErrInt == "ValueError: invalid literal for int() with base 10"
ErrIntType == "TypeError: int() can't convert non-string with explicit base"
ErrDate == "ValueError: unknown string format"
ErrDateType == "TypeError: parser must be a string"
ErrNotProject == "TypeError: Project must be instance of Project object"
ErrFormat == "TypeError: %d format: a number is required"
ErrNoId == "AttributeError: 'Project' object has no attribute 'id'"
ErrNoAttr == "AttributeError: 'Lighthouse' object has no attribute"
ErrNoGet == "AttributeError: object has no attribute 'get'"
ErrJoin == "AttributeError: 'NoneType' object has no attribute 'startswith'"
ErrExpat == "ExpatError"
ErrXmlType == "TypeError: xmltodict needs a string"

(***************************************************************************)
(* Names the code spells out, as character sequences.                      *)
(***************************************************************************)
K_id == <<"i", "d">>
K_tickets == <<"t", "i", "c", "k", "e", "t", "s">>
K_milestones == <<"m", "i", "l", "e", "s", "t", "o", "n", "e", "s">>
K_messages == <<"m", "e", "s", "s", "a", "g", "e", "s">>

S_true == <<"t", "r", "u", "e">>
S_True == <<"T", "r", "u", "e">>
S_False == <<"F", "a", "l", "s", "e">>
S_None == <<"N", "o", "n", "e">>
S_1 == <<"1">>

M_datetime == <<"_", "d", "a", "t", "e", "t", "i", "m", "e">>
M_integer == <<"_", "i", "n", "t", "e", "g", "e", "r">>
M_boolean == <<"_", "b", "o", "o", "l", "e", "a", "n">>
M_string == <<"_", "s", "t", "r", "i", "n", "g">>
M_nil == <<"_", "n", "i", "l">>
M_get_data == <<"_", "g", "e", "t", "_", "d", "a", "t", "a">>
M_parse_xml == <<"_", "p", "a", "r", "s", "e", "_", "x", "m", "l">>
M_parse_field == <<"_", "p", "a", "r", "s", "e", "_", "f", "i", "e", "l", "d">>
M_init == <<"_", "_", "i", "n", "i", "t", "_", "_">>

(***************************************************************************)
(* The collaborators outside the repository.                               *)
(***************************************************************************)
\* dateutil.parser.parse accepts these strings of the model (a bare year)
Timestamps == {<<"2", "0", "0", "9">>}

\* the resources for which the service answers well-formed XML when a
\* decoder, not the caller, asks for them
WellFormedPaths == {<<"p">>}

\* the answer of the service that xmltodict cannot parse
NoTree == [ok |-> FALSE, children |-> <<>>]

Tree(nodes) == [ok |-> TRUE, children |-> nodes]

(***************************************************************************)
(* The decoders.  Each returns [err, value].                               *)
(***************************************************************************)
Ret(v) == [err |-> Ok, value |-> v]

Raise(e) == [err |-> e, value |-> NoneV]

\* Lighthouse._datetime: return parse(data)
Datetime(data) ==
    IF data.kind # "str" THEN Raise(ErrDateType)
    ELSE IF data.s \in Timestamps THEN Ret(DateV(data.s))
    ELSE Raise(ErrDate)

\* int(chars, 10): surrounding whitespace and one sign are accepted
IntLiteral(chars) ==
    LET body == RStrip(LStrip(chars))
        signed == body # <<>> /\ Head(body) \in {"+", "-"}
        digits == IF signed THEN Tail(body) ELSE body
    IN  IF AllDigits(digits)
        THEN Ret(IntV(IF signed /\ Head(body) = "-"
                      THEN 0 - DigitsValue(digits, 0)
                      ELSE DigitsValue(digits, 0)))
        ELSE Raise(ErrInt)

\* Lighthouse._integer
Integer(data) ==
    IF Truthy(data)
    THEN IF data.kind = "str" THEN IntLiteral(data.s) ELSE Raise(ErrIntType)
    ELSE Ret(NoneV)

\* Python's data == 'text'
EqStr(data, chars) == data.kind = "str" /\ data.s = chars

\* Python's data == 1
EqOne(data) == data.kind \in {"int", "bool"} /\ data.n = 1

LowerCase(ch) ==
    CASE ch = "T" -> "t" [] ch = "R" -> "r" [] ch = "U" -> "u" [] ch = "E" -> "e"
      [] OTHER -> ch

\* a spelling of 'true' in any mix of cases
SpellsTrue(data) ==
    data.kind = "str" /\ [i \in 1..Len(data.s) |-> LowerCase(data.s[i])] = S_true

\* _boolean comparing data.lower() with 'true'
BooleanAnyCase(data) ==
    IF SpellsTrue(data) \/ EqStr(data, S_1) \/ EqOne(data)
    THEN [err |-> Ok, value |-> BoolV(TRUE)]
    ELSE [err |-> Ok, value |-> BoolV(FALSE)]

\* Lighthouse._boolean
Boolean(data) ==
    IF EqStr(data, S_true) \/ EqStr(data, S_True) \/ EqStr(data, S_1) \/ EqOne(data)
    THEN Ret(BoolV(TRUE))
    ELSE Ret(BoolV(FALSE))

\* str(data)
PyStr(data) ==
    CASE data.kind = "str" -> data.s
      [] data.kind = "int" ->
            IF data.n < 0 THEN <<"-">> \o NatToChars(0 - data.n) ELSE NatToChars(data.n)
      [] data.kind = "bool" -> IF data.n = 1 THEN S_True ELSE S_False
      [] data.kind = "None" -> S_None
      [] data.kind = "datetime" -> Replace(data.s, "T", " ")
      [] OTHER -> <<"<", data.kind, ">">>

\* Lighthouse._string
String(data) == Ret(StrV(PyStr(data)))

\* Lighthouse._nil
Nil(data) == Ret(NoneV)

(***************************************************************************)
(* The client as the decoders see it: [url, token, projects].  A step of   *)
(* the client returns [err, value, c, reqs]: the exception or "ok", the    *)
(* value, the client afterwards and the number of HTTP requests made.      *)
(***************************************************************************)
Client(u, t, p) == [url |-> u, token |-> t, projects |-> p]

Step(r, c, reqs) == [err |-> r.err, value |-> r.value, c |-> c, reqs |-> reqs]

\* Lighthouse._get_data, given the answer the service would give
GetData(c, path, answer) ==
    IF c.url # NoneV
    THEN IF path.kind # "str" THEN Step(Raise(ErrJoin), c, 0)
         ELSE IF answer.ok THEN Step(Ret(TreeV(path.s)), c, 1)
         ELSE Step(Raise(ErrExpat), c, 1)
    ELSE Step(Raise(ErrUrl), c, 0)

\* Lighthouse._parse_xml called on a field's cdata
ParseXml(c, data) ==
    IF data.kind # "str" THEN Step(Raise(ErrXmlType), c, 0)
    ELSE IF \E i \in 1..Len(data.s) : data.s[i] = "<"
    THEN Step(Ret(TreeV(data.s)), c, 0)
    ELSE Step(Raise(ErrExpat), c, 0)

\* Lighthouse.__init__(token, url=None)
Constructor(c, tok) == Step(Ret(NoneV), Client(NoneV, tok, <<>>), 0)

\* getattr(self, name)(data) for the attributes of a Lighthouse whose name
\* starts with an underscore: the methods of the class.  The attributes every
\* object has besides __init__ (__class__, __repr__, ...) are named by no
\* type tag of the model.
CallAttr(c, name, data) ==
    CASE name = M_datetime -> Step(Datetime(data), c, 0)
      [] name = M_integer -> Step(Integer(data), c, 0)
      [] name = M_boolean -> Step(Boolean(data), c, 0)
      [] name = M_string -> Step(String(data), c, 0)
      [] name = M_nil -> Step(Nil(data), c, 0)
      [] name = M_get_data ->
            GetData(c, data, IF data.s \in WellFormedPaths THEN Tree(<<>>) ELSE NoTree)
      [] name = M_parse_xml -> ParseXml(c, data)
      \* _parse_field(cdata): a string or None has no get
      [] name = M_parse_field -> Step(Raise(ErrNoGet), c, 0)
      [] name = M_init -> Constructor(c, data)
      [] OTHER -> Step(Raise(ErrNoAttr), c, 0)

\* A field node: its tag name, the type attribute (NoneV when the node has no
\* attributes or no type among them) and its cdata (NoneV when it has none)
Field(name, type, cdata) == [name |-> name, type |-> type, cdata |-> cdata]

\* line 175: the tuple _parse_field returns, with the client and the requests
Parsed(field, r) ==
    [err |-> r.err, name |-> field.name, value |-> r.value,
     type |-> field.type, c |-> r.c, reqs |-> r.reqs]

\* _parse_field sending a field without a type to _nil
ParseFieldNilDefault(c, field) ==
    Parsed(field,
           IF Truthy(field.type)
           THEN CallAttr(c, <<"_">> \o field.type.s, field.cdata)
           ELSE Step(Nil(field.cdata), c, 0))

\* Lighthouse._parse_field: [err, name, value, type, c, reqs]
ParseField(c, field) ==
    Parsed(field,
           IF Truthy(field.type)
           THEN CallAttr(c, <<"_">> \o field.type.s, field.cdata)
           ELSE Step(Ret(field.cdata), c, 0))

(***************************************************************************)
(* Entities.  An entity is its attribute dictionary: a function from       *)
(* attribute names to values.                                              *)
(***************************************************************************)
\* object.__setattr__(key, value)
SetAttr(attrs, key, value) ==
    [k \in (DOMAIN attrs) \cup {key} |-> IF k = key THEN value ELSE attrs[k]]

\* Ticket.__init__
NewTicket == [k \in {} |-> NoneV]

\* Project.__init__
NewProject ==
    [k \in {K_tickets, K_milestones, K_messages} |-> ListV(<<>>)]

\* a reference to the Project instance objs[i], as a value
Ref(i) == Val("Project", <<>>, i, <<>>)

RECURSIVE SetFields(_, _, _, _)
RECURSIVE BuildEntities(_, _, _, _, _)
RECURSIVE InitLoop(_, _, _, _, _, _)

\* line 204 setting the parsed field f under its name as sent
SetFieldKeepHyphen(f, rest, attrs, reqs) ==
    IF f.err # Ok
    THEN [err |-> f.err, attrs |-> attrs, c |-> f.c, reqs |-> reqs + f.reqs]
    ELSE SetFields(f.c, rest, SetAttr(attrs, f.name, f.value), reqs + f.reqs)

\* Lines 203-204 for one parsed field f: an exception of _parse_field leaves
\* the loop, otherwise the value is set and the loop goes on with the rest.
SetField(f, rest, attrs, reqs) ==
    IF f.err # Ok
    THEN [err |-> f.err, attrs |-> attrs, c |-> f.c, reqs |-> reqs + f.reqs]
    ELSE SetFields(f.c, rest, SetAttr(attrs, Replace(f.name, "-", "_"), f.value),
                   reqs + f.reqs)

\* The inner loop of get_projects and get_tickets: every field of one node is
\* parsed and set on the entity.  [err, attrs, c, reqs]
SetFields(c, fields, attrs, reqs) ==
    IF fields = <<>> THEN [err |-> Ok, attrs |-> attrs, c |-> c, reqs |-> reqs]
    ELSE SetField(ParseField(c, Head(fields)), Tail(fields), attrs, reqs)

\* Line 205 for one entity e: it is appended and the loop goes on.
AppendEntity(e, rest, fresh, built) ==
    IF e.err # Ok
    THEN [err |-> e.err, built |-> built, c |-> e.c, reqs |-> e.reqs]
    ELSE BuildEntities(e.c, rest, fresh, Append(built, e.attrs), e.reqs)

\* The outer loop: one entity per child node, appended in order.
\* [err, built, c, reqs]
BuildEntities(c, nodes, fresh, built, reqs) ==
    IF nodes = <<>> THEN [err |-> Ok, built |-> built, c |-> c, reqs |-> reqs]
    ELSE AppendEntity(SetFields(c, Head(nodes).children, fresh, reqs),
                      Tail(nodes), fresh, built)

(***************************************************************************)
(* The public operations, as functions of the client, the heap and the     *)
(* answers of the service.  Each returns [err, c, objs, reqs, done, list]: *)
(* done and list are the fetches init completed and the list it walked.    *)
(***************************************************************************)
Result(e, c, heap, reqs, done) ==
    [err |-> e, c |-> c, objs |-> heap, reqs |-> reqs, done |-> done,
     list |-> <<>>]

\* Project.endpoint
ProjectsPath == StrV(<<"projects.xml">>)

\* Ticket.endpoint % (project.id)
TicketsPath(id) ==
    StrV(<<"projects/">>
         \o (IF id < 0 THEN <<"-">> \o NatToChars(0 - id) ELSE NatToChars(id))
         \o <<"/tickets.xml">>)

\* line 206: self.projects = projects, the entities b.built now on the heap
ProjectsBuilt(heap, b) ==
    IF b.err # Ok THEN Result(b.err, b.c, heap, b.reqs, 0)
    ELSE Result(Ok,
                [b.c EXCEPT !.projects = [i \in 1..Len(b.built) |-> Len(heap) + i]],
                heap \o b.built, b.reqs, 0)

\* lines 199-206, after _get_data has returned d
ProjectsFetched(c, heap, answer, d) ==
    IF d.err # Ok THEN Result(d.err, c, heap, d.reqs, 0)
    ELSE ProjectsBuilt(heap,
                       BuildEntities(c, answer.children, NewProject, <<>>, d.reqs))

\* Lighthouse.get_projects
GetProjects(c, heap, answer) ==
    ProjectsFetched(c, heap, answer, GetData(c, ProjectsPath, answer))

\* line 238: project.tickets = tickets
TicketsBuilt(heap, i, b) ==
    IF b.err # Ok THEN Result(b.err, b.c, heap, b.reqs, 0)
    ELSE Result(Ok, b.c,
                [heap EXCEPT ![i] = SetAttr(@, K_tickets, ListV(b.built))],
                b.reqs, 0)

\* lines 229-238, after _get_data has returned d
TicketsFetched(c, heap, i, answer, d) ==
    IF d.err # Ok THEN Result(d.err, c, heap, d.reqs, 0)
    ELSE TicketsBuilt(heap, i,
                      BuildEntities(c, answer.children, NewTicket, <<>>, d.reqs))

\* lines 227-228 for the Project p: the path is formatted, then fetched
TicketsOf(c, heap, i, p, answer) ==
    IF K_id \notin DOMAIN p THEN Result(ErrNoId, c, heap, 0, 0)
    ELSE IF p[K_id].kind \notin {"int", "bool"} THEN Result(ErrFormat, c, heap, 0, 0)
    ELSE TicketsFetched(c, heap, i, answer,
                        GetData(c, TicketsPath(p[K_id].n), answer))

\* get_tickets asking _get_data for the url before it formats the path
GetTicketsUrlFirst(c, heap, project, answer) ==
    IF project.kind = "Project"
    THEN IF c.url = NoneV THEN Result(ErrUrl, c, heap, 0, 0)
         ELSE TicketsOf(c, heap, project.n, heap[project.n], answer)
    ELSE Result(ErrNotProject, c, heap, 0, 0)

\* get_tickets testing isinstance only after the url
GetTicketsUrlBeforeType(c, heap, project, answer) ==
    IF c.url = NoneV THEN Result(ErrUrl, c, heap, 0, 0)
    ELSE IF project.kind = "Project"
    THEN TicketsOf(c, heap, project.n, heap[project.n], answer)
    ELSE Result(ErrNotProject, c, heap, 0, 0)

\* Lighthouse.get_tickets
GetTickets(c, heap, project, answer) ==
    IF project.kind = "Project"
    THEN TicketsOf(c, heap, project.n, heap[project.n], answer)
    ELSE Result(ErrNotProject, c, heap, 0, 0)

\* Line 182 for one fetch t of init: an exception leaves the loop.
TicketsWalked(t, list, pool, reqs, done) ==
    IF t.err # Ok
    THEN {[Result(t.err, t.c, t.objs, reqs + t.reqs, done) EXCEPT !.list = list]}
    ELSE InitLoop(t.c, t.objs, list, pool, reqs + t.reqs, done + 1)

\* The loop of init: get_tickets for every element of the list that
\* self.projects named when the loop began, each fetch answered by one of
\* `pool`.  done counts the fetches that returned.  The set of the results
\* the answers of the service can lead to.
InitLoop(c, heap, list, pool, reqs, done) ==
    IF done = Len(list)
    THEN {[Result(Ok, c, heap, reqs, done) EXCEPT !.list = list]}
    ELSE UNION {TicketsWalked(GetTickets(c, heap, Ref(list[done + 1]), answer),
                              list, pool, reqs, done)
                : answer \in pool}

\* lines 181-182, after get_projects has returned g
ProjectsWalked(g, pool) ==
    IF g.err # Ok THEN {g}
    ELSE InitLoop(g.c, g.objs, g.c.projects, pool, g.reqs, 0)

\* Lighthouse.init: the results it can have when projects.xml is answered by
\* `answer` and every tickets.xml by one of `pool`
InitCall(c, heap, answer, pool) ==
    ProjectsWalked(GetProjects(c, heap, answer), pool)

(***************************************************************************)
(* What the service may answer and what the caller may pass.               *)
(***************************************************************************)
RECURSIVE SeqsUpTo(_, _)
SeqsUpTo(S, n) ==
    IF n = 0 THEN {<<>>}
    ELSE LET shorter == SeqsUpTo(S, n - 1)
         IN  shorter \cup {Append(q, x) : q \in shorter, x \in S}

T_integer == StrV(<<"i", "n", "t", "e", "g", "e", "r">>)
T_boolean == StrV(<<"b", "o", "o", "l", "e", "a", "n">>)
T_string == StrV(<<"s", "t", "r", "i", "n", "g">>)
T_nil == StrV(<<"n", "i", "l">>)
T_datetime == StrV(<<"d", "a", "t", "e", "t", "i", "m", "e">>)
T_get_data == StrV(<<"g", "e", "t", "_", "d", "a", "t", "a">>)
T_parse_xml == StrV(<<"p", "a", "r", "s", "e", "_", "x", "m", "l">>)
T_parse_field == StrV(<<"p", "a", "r", "s", "e", "_", "f", "i", "e", "l", "d">>)
T_init == StrV(<<"_", "i", "n", "i", "t", "_", "_">>)
T_bogus == StrV(<<"b", "o", "g", "u", "s">>)
T_empty == StrV(<<>>)

\* the type attributes a field node may carry; NoneV is a node without one
TypeTags ==
    {NoneV, T_empty, T_integer, T_boolean, T_string, T_nil, T_datetime,
     T_get_data, T_parse_xml, T_parse_field, T_init, T_bogus}

F_id == Field(K_id, T_integer, StrV(<<" ", "7">>))
F_idText == Field(K_id, NoneV, StrV(<<"7">>))
F_name == Field(<<"n", "a", "m", "e">>, NoneV, StrV(<<"A">>))
F_hyphen == Field(<<"a", "-", "b">>, T_string, StrV(<<"x">>))
F_under == Field(<<"a", "_", "b">>, T_nil, StrV(<<"y">>))
F_count == Field(<<"n">>, T_integer, StrV(<<"2", ".", "5">>))
F_date == Field(<<"a", "t">>, T_datetime, StrV(<<"2", "0", "0", "9">>))
F_reset == Field(<<"x">>, T_init, StrV(<<"k">>))
F_tickets == Field(K_tickets, T_boolean, StrV(<<"T", "R", "U", "E">>))
F_fetch == Field(<<"d">>, T_get_data, StrV(<<"p">>))

Node(fields) == [children |-> fields]

\* the child nodes a projects.xml answer is made of
ProjectNodes ==
    {Node(<<F_id, F_hyphen, F_under>>),
     Node(<<F_idText, F_date, F_tickets>>),
     Node(<<F_count>>),
     Node(<<F_fetch, F_reset>>)}

\* the child nodes a tickets.xml answer is made of
TicketNodes ==
    {Node(<<F_name, F_hyphen>>),
     Node(<<F_reset>>),
     Node(<<F_count>>)}

ProjectAnswers == {NoTree} \cup {Tree(q) : q \in SeqsUpTo(ProjectNodes, MaxChildren)}

\* what the service may answer for a tickets.xml: no well-formed document, no
\* ticket, any one ticket, or two tickets
TicketAnswers ==
    {NoTree, Tree(<<>>)} \cup {Tree(<<n>>) : n \in TicketNodes}
        \cup {Tree(<<Node(<<F_name, F_hyphen>>), Node(<<F_reset>>)>>)}

\* what a caller may hand to get_tickets in place of a Project
NotProjects == {IntV(123), StrV(<<"project">>), NoneV, OtherV}

BaseUrl == StrV(<<"http://ars.lighthouseapp.com">>)

(***************************************************************************)
(* The caller's calls.                                                     *)
(***************************************************************************)
\* The record of a call: input is the document the call turned into entities
\* (NoTree when it raised before it had built them all).
Called(op, arg, input, r, value) ==
    [op |-> op, arg |-> arg, input |-> IF r.err = Ok THEN input ELSE NoTree,
     err |-> r.err, reqs |-> r.reqs, done |-> r.done, iter |-> r.list,
     value |-> value]

\* The call op(arg) ends with result r: the client and the heap are as the
\* call left them.
Install(op, arg, input, r) ==
    /\ calls < MaxCalls
    /\ Len(r.objs) <= MaxObjs
    /\ calls' = calls + 1
    /\ url' = r.c.url
    /\ token' = r.c.token
    /\ projects' = r.c.projects
    /\ objs' = r.objs
    /\ last' = Called(op, arg, input, r, NoneV)

\* lh = Lighthouse(token, url)
Init ==
    /\ url \in {NoneV, BaseUrl}
    /\ token = NoneV
    /\ projects = <<>>
    /\ objs = <<>>
    /\ last = [op |-> "new", arg |-> NoneV, input |-> NoTree, err |-> Ok,
               reqs |-> 0, done |-> 0, iter |-> <<>>, value |-> NoneV]
    /\ calls = 0

\* lh.url = u
SetUrl(u) ==
    /\ calls < MaxCalls
    /\ url # u
    /\ url' = u
    /\ calls' = calls + 1
    /\ UNCHANGED <<token, projects, objs>>
    /\ last' = Called("set_url", u, NoTree, Result(Ok, 0, 0, 0, 0), NoneV)

\* lh.get_projects()
CallGetProjects(answer) ==
    Install("get_projects", NoneV, answer,
            GetProjects(Client(url, token, projects), objs, answer))

\* lh.get_tickets(project)
CallGetTickets(project, answer) ==
    Install("get_tickets", project, answer,
            GetTickets(Client(url, token, projects), objs, project, answer))

\* the Project instances the answer describes fit the heap of the model
Room(answer) == Len(objs) + Len(answer.children) <= MaxObjs

\* lh.init()
CallInit(answer) ==
    /\ Room(answer)
    /\ \E r \in InitCall(Client(url, token, projects), objs, answer, TicketAnswers) :
          Install("init", NoneV, NoTree, r)

Next ==
    \/ \E u \in {NoneV, BaseUrl} : SetUrl(u)
    \/ \E answer \in ProjectAnswers : CallGetProjects(answer)
    \/ \E project \in NotProjects \cup {Ref(i) : i \in 1..Len(objs)},
          answer \in TicketAnswers : CallGetTickets(project, answer)
    \/ \E answer \in ProjectAnswers : CallInit(answer)

Spec == Init /\ [][Next]_vars

(***************************************************************************)
(* The decoders called on their own, as the doctests call them: the        *)
(* argument is drawn when the run begins and one decoder is applied to it. *)
(***************************************************************************)
DecodeChars == {"t", "T", "r", "R", "u", "U", "e", "E"}

S_false == <<"f", "a", "l", "s", "e">>

\* the arguments of the doctests and their neighbours
ExtraInputs ==
    {NoneV, IntV(0), IntV(1), IntV(2), IntV(-1), BoolV(TRUE), BoolV(FALSE),
     StrV(S_1), StrV(<<"2">>), StrV(<<"0">>), StrV(<<"1", "0">>),
     StrV(<<" ", "7">>), StrV(<<"-", "3">>), StrV(<<"2", "3", ".", "5">>),
     StrV(<<"1", " ">>), StrV(<<"+">>), StrV(<<"p">>), StrV(<<"<", "a", "/", ">">>),
     StrV(S_false), StrV(S_False),
     StrV(<<"2", "0", "0", "9">>), DateV(<<"2", "0", "0", "9">>)}

DecodeInputs == {StrV(q) : q \in SeqsUpTo(DecodeChars, MaxStrLen)} \cup ExtraInputs

InitDecode ==
    /\ url = BaseUrl
    /\ token = NoneV
    /\ projects = <<>>
    /\ objs = <<>>
    /\ calls = 0
    /\ \E data \in DecodeInputs :
          last = [op |-> "data", arg |-> data, input |-> NoTree, err |-> Ok,
                  reqs |-> 0, done |-> 0, iter |-> <<>>, value |-> NoneV]

\* lh._<decoder>(data), with the result r of the decoder
Decoded(op, r) ==
    /\ calls = 0
    /\ calls' = 1
    /\ last' = [last EXCEPT !.op = op, !.err = r.err, !.value = r.value]
    /\ UNCHANGED <<url, token, projects, objs>>

CallDatetime == Decoded("_datetime", Datetime(last.arg))

CallInteger == Decoded("_integer", Integer(last.arg))

CallBoolean == Decoded("_boolean", Boolean(last.arg))

CallString == Decoded("_string", String(last.arg))

CallNil == Decoded("_nil", Nil(last.arg))

\* lh._parse_field(field) for a field node with this type and the drawn cdata
CallParseField(type) ==
    LET field == Field(<<"f">>, type, last.arg)
        r == ParseField(Client(url, token, projects), field)
    IN  /\ calls = 0
        /\ last.arg.kind \in {"str", "None"}
        /\ calls' = 1
        /\ url' = r.c.url
        /\ token' = r.c.token
        /\ projects' = r.c.projects
        /\ UNCHANGED objs
        /\ last' = [last EXCEPT !.op = "_parse_field", !.input = field,
                                !.err = r.err, !.reqs = r.reqs, !.value = r.value]

NextDecode ==
    \/ CallDatetime
    \/ CallInteger
    \/ CallBoolean
    \/ CallString
    \/ CallNil
    \/ \E type \in TypeTags : CallParseField(type)

SpecDecode == InitDecode /\ [][NextDecode]_vars

(***************************************************************************)
(* The claims.                                                             *)
(***************************************************************************)
Range(q) == {q[i] : i \in 1..Len(q)}

Underscored(name) == Replace(name, "-", "_")

FiveTypes == {T_datetime, T_integer, T_boolean, T_string, T_nil}

\* the client and every Project instance are what they were
Untouched == UNCHANGED <<url, token, projects, objs>>

\* the value the decoder of a field's declared type gives its cdata
DecodedValue(f) ==
    CASE f.type = T_datetime -> Datetime(f.cdata).value
      [] f.type = T_integer -> Integer(f.cdata).value
      [] f.type = T_boolean -> Boolean(f.cdata).value
      [] f.type = T_string -> String(f.cdata).value
      [] f.type = T_nil -> Nil(f.cdata).value
      [] OTHER -> f.cdata

\* no later field of the node is set under the same attribute name
LastOfItsKey(node, j) ==
    \A k \in (j + 1)..Len(node.children) :
        Underscored(node.children[k].name) # Underscored(node.children[j].name)

\* Entity p carries every field of node under its underscored name, and the
\* decoded value of every field (lastOnly: of the last field of each name).
Carries(p, node, lastOnly) ==
    \A j \in 1..Len(node.children) :
        LET f == node.children[j]
        IN  /\ Underscored(f.name) \in DOMAIN p
            /\ (/\ lastOnly => LastOfItsKey(node, j)
                /\ (f.type \in FiveTypes \/ ~Truthy(f.type)))
                  => p[Underscored(f.name)] = DecodedValue(f)

GetProjectsReturned == last.op = "get_projects" /\ last.err = Ok

GetTicketsReturned == last.op = "get_tickets" /\ last.err = Ok

\* the collection is a list of new Project instances, one per child node
OnePerChild ==
    LET n == Len(last.input.children)
    IN  /\ n <= Len(objs)
        /\ projects = [i \in 1..n |-> Len(objs) - n + i]

\* C1 as amended: after a successful get_projects the collection is replaced
\* by one new Project per top-level child node, in response order; every
\* field node of the child is an attribute under its name with hyphens made
\* underscores, and the attribute holds the value of the last field node set
\* under that name: decoded by the decoder of its declared type, or the raw
\* cdata when it declares no type.
C1_LastFieldWins ==
    GetProjectsReturned =>
        /\ OnePerChild
        /\ \A i \in 1..Len(projects) :
              LET node == last.input.children[i]
              IN  Carries(objs[projects[i]], node, TRUE)

\* C1 as stated: after a successful get_projects every field node of a child
\* is an attribute of its Project holding that node's decoded value.
C1_EveryFieldKept ==
    GetProjectsReturned =>
        /\ OnePerChild
        /\ \A i \in 1..Len(projects) :
              Carries(objs[projects[i]], last.input.children[i], FALSE)

\* C1: get_projects has returned two projects built from a typed field with a
\* hyphen in its name and from a field without a type
C1_Witness ==
    /\ GetProjectsReturned
    /\ Len(projects) = 2
    /\ \E i \in 1..2 : F_hyphen \in Range(last.input.children[i].children)
    /\ \E i \in 1..2 : F_idText \in Range(last.input.children[i].children)
    /\ objs[projects[2]][K_id] = StrV(<<"7">>)

\* the exception get_tickets raises for Project p while the url is unset
UnsetUrlError(p) ==
    IF K_id \notin DOMAIN p THEN ErrNoId
    ELSE IF p[K_id].kind \notin {"int", "bool"} THEN ErrFormat
    ELSE ErrUrl

\* C2 as amended: while the url is unset, get_projects and init raise the
\* configuration error, and so does get_tickets for a Project whose id is a
\* number; for a Project without an id get_tickets raises AttributeError and
\* for one whose id is not a number TypeError.  None of them makes a request
\* or changes the client, the collection or any project.
C2_UnsetUrlFails ==
    [][/\ (url = NoneV /\ last'.op \in {"get_projects", "init"})
            => (last'.err = ErrUrl /\ last'.reqs = 0 /\ Untouched)
       /\ (url = NoneV /\ last'.op = "get_tickets" /\ last'.arg.kind = "Project")
            => /\ last'.err = UnsetUrlError(objs[last'.arg.n])
               /\ last'.reqs = 0
               /\ Untouched]_vars

\* C2 as stated: while the url is unset, get_projects, init and get_tickets
\* for any Project raise the configuration error, make no request and change
\* nothing.
C2_AlwaysConfigError ==
    [][(/\ url = NoneV
        /\ \/ last'.op \in {"get_projects", "init"}
           \/ last'.op = "get_tickets" /\ last'.arg.kind = "Project")
          => (last'.err = ErrUrl /\ last'.reqs = 0 /\ Untouched)]_vars

\* C2: get_tickets was called for a Project of the collection with a numeric
\* id while the url was unset, and raised the configuration error
C2_Witness ==
    /\ url = NoneV
    /\ last.op = "get_tickets"
    /\ last.err = ErrUrl
    /\ last.arg.kind = "Project"
    /\ last.arg.n \in Range(projects)

\* C3: get_tickets with an argument that is no Project raises the TypeError
\* without a request, with or without a url, and changes neither the client
\* nor any project.
C3_NotAProject ==
    [][(last'.op = "get_tickets" /\ last'.arg.kind # "Project")
          => (last'.err = ErrNotProject /\ last'.reqs = 0 /\ Untouched)]_vars

\* C3: get_tickets(123) has raised on a client with a url and a project
C3_Witness ==
    /\ last.op = "get_tickets"
    /\ last.arg = IntV(123)
    /\ last.err = ErrNotProject
    /\ url = BaseUrl
    /\ projects # <<>>

\* C4: a successful get_tickets(p) leaves p.tickets with one Ticket per child
\* node and changes neither the collection, nor another attribute of p, nor
\* another project.
C4_OnlyTicketsChange ==
    [][(last'.op = "get_tickets" /\ last'.err = Ok)
          => LET i == last'.arg.n
             IN  /\ projects' = projects
                 /\ Len(objs') = Len(objs)
                 /\ \A j \in 1..Len(objs) : j # i => objs'[j] = objs[j]
                 /\ DOMAIN objs'[i] = DOMAIN objs[i] \cup {K_tickets}
                 /\ \A k \in DOMAIN objs[i] \ {K_tickets} : objs'[i][k] = objs[i][k]
                 /\ Len(objs'[i][K_tickets].items) = Len(last'.input.children)]_vars

\* C5: when init raises, the projects whose tickets were not fetched still
\* have an empty ticket list.
C5_UnfetchedStayEmpty ==
    (last.op = "init" /\ last.err # Ok)
        => \A i \in (last.done + 1)..Len(last.iter) :
              objs[last.iter[i]][K_tickets] = ListV(<<>>)

\* C6 as amended: after get_projects a Project's attributes are the
\* underscored names of the fields of its node together with tickets,
\* milestones and messages; after get_tickets a Ticket's attributes are the
\* underscored names of the fields of its node.
C6_UnderscoredNames ==
    /\ GetProjectsReturned =>
          \A i \in 1..Len(projects) :
              DOMAIN objs[projects[i]] =
                  {Underscored(f.name) : f \in Range(last.input.children[i].children)}
                      \cup {K_tickets, K_milestones, K_messages}
    /\ GetTicketsReturned =>
          LET tickets == objs[last.arg.n][K_tickets].items
          IN  /\ Len(tickets) = Len(last.input.children)
              /\ \A i \in 1..Len(tickets) :
                    DOMAIN tickets[i] =
                        {Underscored(f.name) : f \in Range(last.input.children[i].children)}

\* C6 as stated: after get_projects or get_tickets the attributes of an
\* entity are exactly the names of the fields of its node.
C6_ExactlyTheFieldNames ==
    /\ GetProjectsReturned =>
          \A i \in 1..Len(projects) :
              DOMAIN objs[projects[i]] =
                  {f.name : f \in Range(last.input.children[i].children)}
    /\ GetTicketsReturned =>
          LET tickets == objs[last.arg.n][K_tickets].items
          IN  /\ Len(tickets) = Len(last.input.children)
              /\ \A i \in 1..Len(tickets) :
                    DOMAIN tickets[i] =
                        {f.name : f \in Range(last.input.children[i].children)}

\* C6: get_tickets has built a Ticket from a node with a hyphenated field
C6_Witness ==
    /\ GetTicketsReturned
    /\ Len(last.input.children) > 0
    /\ F_hyphen \in Range(last.input.children[1].children)

\* the inputs _boolean answers True for
TrueInputs(data) ==
    \/ data.kind = "str" /\ data.s \in {S_1, S_true, S_True}
    \/ data.kind \in {"int", "bool"} /\ data.n = 1

\* C7 as amended: _boolean never raises and returns True exactly for '1', for
\* a number equal to 1 and for the two spellings 'true' and 'True'; for every
\* other input, the other spellings of 'true' among them, it returns False.
C7_TwoSpellings ==
    last.op = "_boolean" =>
        (last.err = Ok /\ last.value = BoolV(TrueInputs(last.arg)))

\* C7 as stated: _boolean never raises and returns True exactly for '1', a
\* number equal to 1 and every case variant of 'true'.
C7_AnySpelling ==
    last.op = "_boolean" =>
        /\ last.err = Ok
        /\ last.value = BoolV(\/ EqStr(last.arg, S_1)
                              \/ EqOne(last.arg)
                              \/ SpellsTrue(last.arg))

\* C7: _boolean('True') has returned True
C7_Witness ==
    /\ last.op = "_boolean"
    /\ last.arg = StrV(S_True)
    /\ last.value = BoolV(TRUE)

\* C8: a get_projects that raises the integer decode error leaves the
\* collection and the projects as they were, and a get_tickets that raises
\* it leaves the tickets of every project as they were.
C8_NoPartialResult ==
    [][/\ (last'.op = "get_projects" /\ last'.err = ErrInt)
            => (projects' = projects /\ objs' = objs)
       /\ (last'.op = "get_tickets" /\ last'.err = ErrInt)
            => objs' = objs]_vars

\* C9: _parse_field for a declared type that names none of the five decoders
\* raises, makes no request and leaves the client as it was.
C9_OnlyTheFiveDecoders ==
    (/\ last.op = "_parse_field"
     /\ Truthy(last.input.type)
     /\ last.input.type \notin FiveTypes)
        => /\ last.err # Ok
           /\ last.reqs = 0
           /\ url = BaseUrl
           /\ token = NoneV

\* C10: after a successful get_projects every project of the collection has
\* empty tickets, milestones and messages lists.
C10_FreshAndEmpty ==
    GetProjectsReturned =>
        \A i \in 1..Len(projects) :
            \A k \in {K_tickets, K_milestones, K_messages} :
                objs[projects[i]][k] = ListV(<<>>)

====
